---- MODULE Spec2Model ----
(***************************************************************************)
(* Model of easy_sqlshow (src/app.py): CSV header normalisation, column    *)
(* type inference, the CSV -> SQLite import with its freshness marker,     *)
(* and the grouped-statistics query.                                       *)
(*                                                                         *)
(* Strings are sequences of one-character strings, so that the character   *)
(* level work of the code (regex substitution, strip, float parsing) is    *)
(* computed and not assumed.                                               *)
(***************************************************************************)
EXTENDS Integers, Sequences, FiniteSets, TLC

VARIABLES
    nHdr,       \* normalizer: the raw header handed to clean_column_name
    nFlag,      \* normalizer: preserve_chinese
    nOut,       \* normalizer: the successive results of clean_column_name
    iSamples,   \* inferencer: sample_values
    iType,      \* inferencer: the returned SQL type, "none" before the call
    csv,        \* the source file ./static/data.csv
    db,         \* the store file ./static/summary.db
    marker,     \* the freshness marker ./static/summary.db.hash
    last,       \* the last operation: its name, its force flag, its result
    aDb,        \* aggregator: the store file get_grouped_statistics reads
    aOut,       \* aggregator: its result; aOut.done is FALSE before the call
    rData,      \* renderer: the rows render_grouped_table is given
    rOut,       \* renderer: its result; rOut.done is FALSE before the call
    cMode,      \* two invocations: "serial" or "interleaved"
    cPath,      \* two invocations: the file db_path names, 0 if there is none
    cInodes,    \* two invocations: the store files, also the unlinked ones
    cProc       \* two invocations: the position and the locals of each

vars == <<nHdr, nFlag, nOut, iSamples, iType, csv, db, marker, last, aDb, aOut, rData, rOut, cMode, cPath, cInodes, cProc>>

(***************************************************************************)
(* Bounds                                                                  *)
(***************************************************************************)
MaxHdrLen == 3
MaxSamples == 3
MaxRows == 2
MaxAggRows == 3
MaxRenderRows == 2

(***************************************************************************)
(* Characters                                                              *)
(***************************************************************************)
Digits == {"0", "1", "2", "3", "4", "5", "6", "7", "8", "9"}
LowerSeq == <<"a", "b", "c", "d", "e", "f", "g", "h", "i", "j", "k", "l", "m",
              "n", "o", "p", "q", "r", "s", "t", "u", "v", "w", "x", "y", "z">>
UpperSeq == <<"A", "B", "C", "D", "E", "F", "G", "H", "I", "J", "K", "L", "M",
              "N", "O", "P", "Q", "R", "S", "T", "U", "V", "W", "X", "Y", "Z">>
AsciiLower == {LowerSeq[i] : i \in 1..26}
AsciiUpper == {UpperSeq[i] : i \in 1..26}
\* the characters of the range U+4E00..U+9FFF that occur: one character of a
\* header, and the characters of the five fixed column names
CJK == {"U4E2D", "U6570", "U636E", "U96C6", "U7248", "U672C", "U8BC4", "U4F30",
        "U6307", "U6807", "U53C2", "U6A21", "U5F0F"}
Whitespace == {" "}

\* [a-zA-Z0-9_]
IsAsciiWord(c) == c \in AsciiLower \cup AsciiUpper \cup Digits \cup {"_"}
\* [\w U+4E00..U+9FFF] ; \w of a str pattern also matches CJK letters
IsWordOrCJK(c) == IsAsciiWord(c) \/ c \in CJK
\* str.isdigit() on the characters of the model
IsDigit(c) == c \in Digits
\* str.lower() on one character
LowerChar(c) ==
    IF c \in AsciiUpper
    THEN LowerSeq[CHOOSE i \in 1..26 : UpperSeq[i] = c]
    ELSE c
\* str.upper() on one character
UpperChar(c) ==
    IF c \in AsciiLower
    THEN UpperSeq[CHOOSE i \in 1..26 : LowerSeq[i] = c]
    ELSE c

MapSeq(s, F(_)) == [i \in 1..Len(s) |-> F(s[i])]
Contains(s, c) == \E i \in 1..Len(s) : s[i] = c

\* re.sub(r'_+', '_', s): from position i on
RECURSIVE CollapseFrom(_, _)
CollapseFrom(s, i) ==
    IF i > Len(s) THEN <<>>
    ELSE (IF s[i] = "_" /\ i > 1 /\ s[i - 1] = "_" THEN <<>> ELSE <<s[i]>>)
         \o CollapseFrom(s, i + 1)

CollapseUnderscores(s) == CollapseFrom(s, 1)

\* s.strip(chars) for a set of characters
StripChars(s, cs) ==
    LET idx == {i \in 1..Len(s) : s[i] \notin cs}
    IN  IF idx = {} THEN <<>>
        ELSE LET lo == CHOOSE i \in idx : \A j \in idx : i <= j
                 hi == CHOOSE i \in idx : \A j \in idx : i >= j
             IN  SubSeq(s, lo, hi)

ColPrefix == <<"c", "o", "l", "_">>

(***************************************************************************)
(* clean_column_name                                                       *)
(***************************************************************************)
clean_column_name(column_name, preserve_chinese) ==
    LET SubP(c) == IF IsWordOrCJK(c) THEN c ELSE "_"
        SubA(c) == IF IsAsciiWord(c) THEN c ELSE "_"
        c1 == IF preserve_chinese THEN MapSeq(column_name, SubP)
                                  ELSE MapSeq(column_name, SubA)
        c2 == IF c1 # <<>> /\ IsDigit(c1[1]) THEN ColPrefix \o c1 ELSE c1
        c3 == IF ~preserve_chinese THEN MapSeq(c2, LowerChar) ELSE c2
        c4 == CollapseUnderscores(c3)
    IN  StripChars(c4, {"_"})

(***************************************************************************)
(* float(value) on decimal literals.  A parsed number is kept as           *)
(* sign, mantissa m and decimal exponent e (value = m * 10^e) with the     *)
(* trailing zeros of m moved into e, so that equal numbers are equal       *)
(* records.  The range of a double is applied on the decimal order of      *)
(* magnitude: above 1e308 the value is inf, below 1e-324 it is 0.0.        *)
(***************************************************************************)
DigitSeq == <<"0", "1", "2", "3", "4", "5", "6", "7", "8", "9">>
DigitVal(c) == (CHOOSE i \in 1..10 : DigitSeq[i] = c) - 1

RECURSIVE SeqToNat(_)
SeqToNat(s) ==
    IF s = <<>> THEN 0
    ELSE 10 * SeqToNat(SubSeq(s, 1, Len(s) - 1)) + DigitVal(s[Len(s)])

AllDigits(s) == \A i \in 1..Len(s) : s[i] \in Digits

\* the first position of s holding a character of cs, 0 if there is none
IndexOf(s, cs) ==
    LET idx == {i \in 1..Len(s) : s[i] \in cs}
    IN  IF idx = {} THEN 0 ELSE CHOOSE i \in idx : \A j \in idx : i <= j

RECURSIVE NumDigits(_)
NumDigits(m) == IF m < 10 THEN 1 ELSE 1 + NumDigits(m \div 10)

RECURSIVE Normalise(_, _, _)
Normalise(neg, m, e) ==
    IF m = 0 THEN [neg |-> neg, m |-> 0, e |-> 0]
    ELSE IF m % 10 = 0 THEN Normalise(neg, m \div 10, e + 1)
    ELSE [neg |-> neg, m |-> m, e |-> e]

\* the decimal order of magnitude of a non-zero number
Order(v) == NumDigits(v.m) - 1 + v.e

MaxOrder == 308
MinOrder == -324

ParseError == [ok |-> FALSE, inf |-> FALSE, neg |-> FALSE, m |-> 0, e |-> 0]

\* the double nearest to a normalised decimal number
ToDouble(v) ==
    IF v.m # 0 /\ Order(v) > MaxOrder
    THEN [ok |-> TRUE, inf |-> TRUE, neg |-> v.neg, m |-> 0, e |-> 0]
    ELSE IF v.m # 0 /\ Order(v) < MinOrder
    THEN [ok |-> TRUE, inf |-> FALSE, neg |-> v.neg, m |-> 0, e |-> 0]
    ELSE [ok |-> TRUE, inf |-> FALSE, neg |-> v.neg, m |-> v.m, e |-> v.e]

HasSign(x) == x # <<>> /\ x[1] \in {"+", "-"}
IsMinus(x) == x # <<>> /\ x[1] = "-"
Unsigned(x) == IF HasSign(x) THEN Tail(x) ELSE x
Before(x, pos) == IF pos = 0 THEN x ELSE SubSeq(x, 1, pos - 1)
After(x, pos) == IF pos = 0 THEN <<>> ELSE SubSeq(x, pos + 1, Len(x))

\* the digits ip.fp of the mantissa and the digits expo of the exponent
ParseDigits(neg, ip, fp, hasExp, eneg, expo) ==
    IF /\ AllDigits(ip) /\ AllDigits(fp)
       /\ Len(ip) + Len(fp) > 0
       /\ (hasExp => expo # <<>> /\ AllDigits(expo))
    THEN ToDouble(Normalise(neg, SeqToNat(ip \o fp),
                  (IF eneg THEN 0 - SeqToNat(expo) ELSE SeqToNat(expo)) - Len(fp)))
    ELSE ParseError

\* the unsigned mantissa, split at its first '.'
ParseMantissa(neg, mant, dot, hasExp, eneg, expo) ==
    ParseDigits(neg, Before(mant, dot), After(mant, dot), hasExp, eneg, expo)

\* the signed mantissa and the signed exponent
ParseSigned(mant0, hasExp, expo0) ==
    ParseMantissa(IsMinus(mant0), Unsigned(mant0), IndexOf(Unsigned(mant0), {"."}),
                  hasExp, IsMinus(expo0), Unsigned(expo0))

\* the stripped literal, split at its first 'e' or 'E'
ParseStripped(t, ePos) == ParseSigned(Before(t, ePos), ePos # 0, After(t, ePos))

\* float(value): ok is FALSE where float raises ValueError
ParseFloat(value) ==
    ParseStripped(StripChars(value, Whitespace),
                  IndexOf(StripChars(value, Whitespace), {"e", "E"}))

\* 'E' in value.upper() or 'e' in value
HasExponentChar(value) ==
    Contains(MapSeq(value, UpperChar), "E") \/ Contains(value, "e")

\* abs(float_val) > 1e308 or (abs(float_val) < 1e-308 and float_val != 0)
OutOfSafeRange(f) ==
    \/ f.inf
    \/ f.m # 0 /\ Order(f) = MaxOrder /\ f.m # 1
    \/ f.m # 0 /\ Order(f) < 0 - MaxOrder

\* not value.strip()
IsBlank(value) == StripChars(value, Whitespace) = <<>>

(***************************************************************************)
(* infer_data_type                                                         *)
(***************************************************************************)
\* re.match of one of the date patterns: "D" stands for \d, any other
\* token for itself; re.match anchors at the start only
PatDate == <<"D", "D", "D", "D", "-", "D", "D", "-", "D", "D">>
PatSlash == <<"D", "D", "/", "D", "D", "/", "D", "D", "D", "D">>
PatDateTime == PatDate \o <<" ", "D", "D", ":", "D", "D", ":", "D", "D">>
date_patterns == <<PatDate, PatSlash, PatDateTime>>

ReMatch(pattern, value) ==
    /\ Len(value) >= Len(pattern)
    /\ \A i \in 1..Len(pattern) :
          IF pattern[i] = "D" THEN value[i] \in Digits ELSE value[i] = pattern[i]

\* one pass of the loop body on value, f being float(value), from the
\* counters c; ret becomes "TEXT" where the body returns
InferStep(c, value, f) ==
    IF IsBlank(value) \/ ~f.ok THEN c
    ELSE IF HasExponentChar(value)
    THEN [ret |-> IF OutOfSafeRange(f) THEN "TEXT" ELSE "none",
          numeric |-> c.numeric + 1, decimal |-> c.decimal,
          scientific |-> c.scientific + 1]
    ELSE [ret |-> "none", numeric |-> c.numeric + 1,
          decimal |-> IF Contains(value, ".") THEN c.decimal + 1 ELSE c.decimal,
          scientific |-> c.scientific]

\* the loop over sample_values from position i on, with the three counters
RECURSIVE InferScan(_, _, _)
InferScan(sample_values, i, c) ==
    IF i > Len(sample_values) \/ c.ret # "none" THEN c
    ELSE InferScan(sample_values, i + 1, InferStep(c, sample_values[i], ParseFloat(sample_values[i])))

\* numeric_count > len(sample_values) * 0.8
MostlyNumeric(numeric_count, sample_values) ==
    10 * numeric_count > 8 * Len(sample_values)

\* the decision after the loop, c being the counters the loop ended with
InferDecide(sample_values, c) ==
    IF c.ret # "none" THEN c.ret
    ELSE IF MostlyNumeric(c.numeric, sample_values)
    THEN IF c.scientific > 0 THEN "TEXT"
         ELSE IF c.decimal > 0 THEN "DECIMAL(10, 4)"
         ELSE "INTEGER"
    ELSE IF \E p \in 1..Len(date_patterns) :
               \A k \in 1..Len(sample_values) :
                   ~IsBlank(sample_values[k])
                       => ReMatch(date_patterns[p], sample_values[k])
    THEN "DATETIME"
    ELSE "TEXT"

infer_data_type(sample_values) ==
    IF sample_values = <<>> THEN "TEXT"
    ELSE InferDecide(sample_values,
                     InferScan(sample_values, 1,
                               [ret |-> "none", numeric |-> 0, decimal |-> 0,
                                scientific |-> 0]))

(***************************************************************************)
(* Files.  A CSV file is the sequence of its non-blank lines as csv.reader *)
(* yields them, each a sequence of fields; line 1 is the header.  The      *)
(* store file holds at most the table ModelEvaluation: its columns after   *)
(* the key, its records, and the last key AUTOINCREMENT has given out.     *)
(***************************************************************************)
NoFile == [exists |-> FALSE, lines |-> <<>>]
CsvFile(lines) == [exists |-> TRUE, lines |-> lines]
NoStore == [exists |-> FALSE, hasTable |-> FALSE, columns |-> <<>>, rows |-> <<>>,
            seq |-> 0]
EmptyStore == [exists |-> TRUE, hasTable |-> FALSE, columns |-> <<>>, rows |-> <<>>,
               seq |-> 0]
NoMarker == [exists |-> FALSE, text |-> <<>>]
MarkerFile(text) == [exists |-> TRUE, text |-> text]

\* the values sqlite3 is handed: None, a str, a float
Null == [k |-> "null", s |-> <<>>, f |-> ParseError]
TextVal(s) == [k |-> "text", s |-> s, f |-> ParseError]
RealVal(f) == [k |-> "real", s |-> <<>>, f |-> f]

\* the five fixed column names: dataset, version, metric, parameter, mode
FixedNames == << <<"U6570", "U636E", "U96C6">>, <<"U7248", "U672C">>,
                 <<"U8BC4", "U4F30", "U6307", "U6807">>, <<"U53C2", "U6570">>,
                 <<"U6A21", "U5F0F">> >>
FixedCount == 5
sample_rows == 10

FixedColumns == [i \in 1..FixedCount |->
                    [name |-> FixedNames[i], type |-> "TEXT", notnull |-> TRUE]]

\* hashlib.md5 of the content: equal digests for equal contents only, and
\* the empty string for a file that does not exist
get_file_hash(file) == IF ~file.exists THEN <<>> ELSE <<"md5", file.lines>>

Min(a, b) == IF a <= b THEN a ELSE b

(***************************************************************************)
(* analyze_csv_structure and generate_sql_table                            *)
(***************************************************************************)
\* col_samples: the fields at col of the sample rows long enough to have one
RECURSIVE ColSamples(_, _, _)
ColSamples(sample_data, col, n) ==
    IF n > Len(sample_data) THEN <<>>
    ELSE (IF col <= Len(sample_data[n]) THEN <<sample_data[n][col]>> ELSE <<>>)
         \o ColSamples(sample_data, col, n + 1)

\* columns_info of a file with a header line
ColumnsInfo(headers, sample_data) ==
    [col \in 1..Len(headers) |->
        [original_name |-> headers[col],
         clean_name |-> clean_column_name(headers[col], col > FixedCount),
         data_type |-> infer_data_type(ColSamples(sample_data, col, 1)),
         index |-> col - 1]]

\* ok is FALSE where open raises FileNotFoundError or next(reader) raises
\* StopIteration
analyze_csv_structure(csvF) ==
    IF ~csvF.exists \/ csvF.lines = <<>>
    THEN [ok |-> FALSE, info |-> <<>>]
    ELSE [ok |-> TRUE,
          info |-> ColumnsInfo(Head(csvF.lines),
                               SubSeq(csvF.lines, 2,
                                      1 + Min(sample_rows, Len(csvF.lines) - 1)))]

\* the SQL type of a suffix column
ColumnType(data_type) ==
    IF data_type = "TEXT" THEN "TEXT"
    ELSE IF data_type = "INTEGER" THEN "INTEGER"
    ELSE "DECIMAL(10, 4)"

\* the column definitions of the CREATE TABLE statement, after the key
ColumnDefinitions(info) ==
    FixedColumns \o
    [j \in 1..(IF Len(info) > FixedCount THEN Len(info) - FixedCount ELSE 0) |->
        [name |-> info[FixedCount + j].clean_name,
         type |-> ColumnType(info[FixedCount + j].data_type),
         notnull |-> FALSE]]

SqlOf(a) == [ok |-> a.ok, columns |-> IF a.ok THEN ColumnDefinitions(a.info) ELSE <<>>]

generate_sql_table(csvF) == SqlOf(analyze_csv_structure(csvF))

(***************************************************************************)
(* create_database                                                         *)
(***************************************************************************)
\* SQLite compares column names without regard to ASCII case
SameName(a, b) == MapSeq(a, LowerChar) = MapSeq(b, LowerChar)

DuplicateNames(columns) ==
    \E i, j \in 1..Len(columns) : i < j /\ SameName(columns[i].name, columns[j].name)

\* sqlite3.connect creates the file; CREATE TABLE IF NOT EXISTS leaves an
\* existing table alone and is rejected for a duplicate column name
create_database(columns, dbF) ==
    IF dbF.hasTable THEN [ok |-> TRUE, db |-> dbF]
    ELSE IF DuplicateNames(columns) THEN [ok |-> FALSE, db |-> EmptyStore]
    ELSE [ok |-> TRUE,
          db |-> [exists |-> TRUE, hasTable |-> TRUE, columns |-> columns,
                  rows |-> <<>>, seq |-> 0]]

(***************************************************************************)
(* import_csv_to_db                                                        *)
(***************************************************************************)
\* fieldnames: the column names of the INSERT statement
FieldNames(original_fieldnames) ==
    [i \in 1..Len(original_fieldnames) |->
        IF i <= FixedCount THEN FixedNames[i]
        ELSE clean_column_name(original_fieldnames[i], TRUE)]

\* a name is quoted in the statement if it has a character of U+4E00..U+9FFF
IsQuoted(field) == \E i \in 1..Len(field) : field[i] \in CJK
\* an unquoted name must be an SQL identifier
ValidBare(field) == field # <<>> /\ ~IsDigit(field[1])

\* row[field] of csv.DictReader: the dict keeps the last column of a name,
\* and a column the line is too short for is None
LastIndex(headers, name) ==
    CHOOSE j \in 1..Len(headers) :
        headers[j] = name /\ \A k \in 1..Len(headers) : headers[k] = name => k <= j

DictCell(row, j) ==
    IF j <= Len(row) THEN [none |-> FALSE, s |-> row[j]] ELSE [none |-> TRUE, s |-> <<>>]

\* the conversion of a suffix field, f being float(value)
Coerce(value, f) ==
    IF ~f.ok THEN TextVal(value)
    ELSE IF HasExponentChar(value) /\ OutOfSafeRange(f) THEN TextVal(value)
    ELSE RealVal(f)

\* the value appended for column i
FieldValue(i, cell) ==
    IF cell.none \/ cell.s = <<>> \/ IsBlank(cell.s) THEN Null
    ELSE IF i <= FixedCount THEN TextVal(cell.s)
    ELSE Coerce(cell.s, ParseFloat(cell.s))

RowValues(headers, row) ==
    [i \in 1..Len(headers) |-> FieldValue(i, DictCell(row, LastIndex(headers, headers[i])))]

\* the statement is rejected for an unquoted name that is no identifier, or
\* for a name that is no column of the table
StatementOk(columns, fieldnames) ==
    /\ \A i \in 1..Len(fieldnames) : IsQuoted(fieldnames[i]) \/ ValidBare(fieldnames[i])
    /\ \A i \in 1..Len(fieldnames) :
          \E c \in 1..Len(columns) : SameName(columns[c].name, fieldnames[i])

\* the record a row of values makes: a column the statement does not name is NULL
RecordOf(columns, fieldnames, values) ==
    [c \in 1..Len(columns) |->
        IF \E i \in 1..Len(fieldnames) : SameName(columns[c].name, fieldnames[i])
        THEN values[CHOOSE i \in 1..Len(fieldnames) :
                        /\ SameName(columns[c].name, fieldnames[i])
                        /\ \A k \in 1..Len(fieldnames) :
                              SameName(columns[c].name, fieldnames[k]) => i <= k]
        ELSE Null]

NotNullOk(columns, record) ==
    \A c \in 1..Len(columns) : columns[c].notnull => record[c].k # "null"

\* the records of the data lines, keys following the last key given out
Records(columns, fieldnames, headers, lines, seq) ==
    [n \in 1..Len(lines) |->
        [id |-> seq + n,
         vals |-> RecordOf(columns, fieldnames, RowValues(headers, lines[n]))]]

\* the commit and the count, or the NOT NULL constraint rejecting a record
ImportRecords(dbF, records) ==
    IF \E n \in 1..Len(records) : ~NotNullOk(dbF.columns, records[n].vals)
    THEN [ok |-> FALSE, db |-> dbF, count |-> 0]
    ELSE [ok |-> TRUE,
          db |-> [dbF EXCEPT !.rows = records, !.seq = dbF.seq + Len(records)],
          count |-> Len(records)]

\* DELETE, the INSERTs, commit and count on a table; a rejected statement
\* raises before the commit and the connection rolls the transaction back
ImportInto(dbF, headers, fieldnames, lines) ==
    IF lines # <<>> /\ ~StatementOk(dbF.columns, fieldnames)
    THEN [ok |-> FALSE, db |-> dbF, count |-> 0]
    ELSE ImportRecords(dbF, Records(dbF.columns, fieldnames, headers, lines, dbF.seq))

\* sqlite3.connect creates the store file; DELETE raises without the table;
\* open raises without the CSV file; enumerate(None) raises for a file with
\* no header line
import_csv_to_db(csvF, dbF) ==
    IF ~dbF.hasTable THEN [ok |-> FALSE, db |-> EmptyStore, count |-> 0]
    ELSE IF ~csvF.exists \/ csvF.lines = <<>> THEN [ok |-> FALSE, db |-> dbF, count |-> 0]
    ELSE ImportInto(dbF, Head(csvF.lines), FieldNames(Head(csvF.lines)),
                    Tail(csvF.lines))

(***************************************************************************)
(* process_csv_to_database.  The result holds the return value, the store  *)
(* file and the marker after the call, whether the three steps ran to the  *)
(* end, and whether an exception left the function (every Exception is     *)
(* caught).                                                                *)
(***************************************************************************)
Outcome(ret, dbF, markerF, imported) ==
    [ret |-> ret, db |-> dbF, marker |-> markerF, imported |-> imported,
     raised |-> FALSE]

\* the existence check is left out
CsvMissing_Unchecked(csvF) == FALSE

\* not os.path.exists(csv_file_path)
CsvMissing(csvF) == ~csvF.exists

\* the marker's content, "" without the file
PreviousHash(markerF) == IF markerF.exists THEN markerF.text ELSE <<>>

\* the marker is compared with the empty hash instead of the current one
NeedsUpdate_EmptyHash(force_update, current_hash, previous_hash, dbF) ==
    ~(~force_update /\ previous_hash = <<>> /\ dbF.exists)

\* the call goes on to the import
NeedsUpdate(force_update, current_hash, previous_hash, dbF) ==
    ~(~force_update /\ current_hash = previous_hash /\ dbF.exists)

\* the store file is left in place
RemoveStore_Kept(dbF) == dbF

\* os.remove(db_path) if the file exists
RemoveStore(dbF) == NoStore

\* the marker is written although step 3 has failed
ProcessImported_MarkerAnyway(markerF, current_hash, imp) ==
    IF ~imp.ok THEN Outcome(0, imp.db, MarkerFile(current_hash), FALSE)
    ELSE Outcome(imp.count, imp.db, MarkerFile(current_hash), TRUE)

\* step 3 has run: the marker is written and the count returned, or the
\* exception is caught
ProcessImported(markerF, current_hash, imp) ==
    IF ~imp.ok THEN Outcome(0, imp.db, markerF, FALSE)
    ELSE Outcome(imp.count, imp.db, MarkerFile(current_hash), TRUE)

\* step 2 has run
ProcessCreated(csvF, markerF, current_hash, cr) ==
    IF ~cr.ok THEN Outcome(0, cr.db, markerF, FALSE)
    ELSE ProcessImported(markerF, current_hash, import_csv_to_db(csvF, cr.db))

\* step 1 has run, on the removed store
ProcessGenerated(csvF, dbF, markerF, current_hash, sql) ==
    IF ~sql.ok THEN Outcome(0, dbF, markerF, FALSE)
    ELSE ProcessCreated(csvF, markerF, current_hash, create_database(sql.columns, dbF))

\* the hashes are read
ProcessHashed(csvF, dbF, markerF, force_update, current_hash, previous_hash) ==
    IF ~NeedsUpdate(force_update, current_hash, previous_hash, dbF)
    THEN Outcome(-1, dbF, markerF, FALSE)
    ELSE ProcessGenerated(csvF, RemoveStore(dbF), markerF, current_hash,
                          generate_sql_table(csvF))

process_csv_to_database(csvF, dbF, markerF, force_update) ==
    IF CsvMissing(csvF) THEN Outcome(0, dbF, markerF, FALSE)
    ELSE ProcessHashed(csvF, dbF, markerF, force_update, get_file_hash(csvF),
                       PreviousHash(markerF))

(***************************************************************************)
(* get_grouped_statistics.  The query's result is a sequence of display    *)
(* rows: the dataset label, the four identifier fields passed through,     *)
(* and one value per numeric column.  An average is kept as the reduced    *)
(* fraction num/den.                                                       *)
(***************************************************************************)
\* the characters in the order of their code points (BINARY collation)
CharOrder ==
    <<" ", "-", ".", "/", ":">> \o DigitSeq \o UpperSeq \o <<"_">> \o LowerSeq
CharRank(c) == CHOOSE i \in 1..Len(CharOrder) : CharOrder[i] = c

\* the comparison of two strings: -1, 0 or 1
RECURSIVE StrCmp(_, _)
StrCmp(a, b) ==
    IF a = <<>> \/ b = <<>>
    THEN (IF a = b THEN 0 ELSE IF a = <<>> THEN 0 - 1 ELSE 1)
    ELSE IF a[1] # b[1]
    THEN (IF CharRank(a[1]) < CharRank(b[1]) THEN 0 - 1 ELSE 1)
    ELSE StrCmp(Tail(a), Tail(b))

\* the CASE expression of the query on INSTR(ds, '_') = u and INSTR(ds, '-') = h
IdentifierAt(ds, u, h) ==
    IF u > 0 /\ h > 0
    THEN (IF u < h THEN SubSeq(ds, 1, u - 1) ELSE SubSeq(ds, 1, h - 1))
    ELSE IF u > 0 THEN SubSeq(ds, 1, u - 1)
    ELSE IF h > 0 THEN SubSeq(ds, 1, h - 1)
    ELSE ds

\* the hyphen is no delimiter
DatasetIdentifier_UnderscoreOnly(ds) == IdentifierAt(ds, IndexOf(ds, {"_"}), 0)

\* dataset_identifier
DatasetIdentifier(ds) == IdentifierAt(ds, IndexOf(ds, {"_"}), IndexOf(ds, {"-"}))

\* the positions, among the columns after the key, of numeric_columns:
\* PRAGMA table_info counts the key as column 0, and the mode column, which
\* is then column 5, is skipped by its name
NumericColumns(columns) ==
    SelectSeq([c \in 1..Len(columns) |-> c],
              LAMBDA c : c >= FixedCount /\ columns[c].name # FixedNames[5])

\* the rows of the CTE dataset_groups, before row_num
GroupRows(dbF, numeric) ==
    [n \in 1..Len(dbF.rows) |->
        [dataset |-> dbF.rows[n].vals[1].s,
         version |-> dbF.rows[n].vals[2].s,
         metric |-> dbF.rows[n].vals[3].s,
         parameter |-> dbF.rows[n].vals[4].s,
         mode |-> dbF.rows[n].vals[5].s,
         nums |-> [j \in 1..Len(numeric) |-> dbF.rows[n].vals[numeric[j]]],
         identifier |-> DatasetIdentifier(dbF.rows[n].vals[1].s)]]

\* PARTITION BY dataset_identifier, metric
SamePartition(g, h) == g.identifier = h.identifier /\ g.metric = h.metric

\* g may come before h under ORDER BY dataset_identifier, metric, row_num,
\* row_num following ORDER BY dataset, version, metric within the partition
KeyCmp(c1, c2, c3, c4) ==
    IF c1 # 0 THEN c1 ELSE IF c2 # 0 THEN c2 ELSE IF c3 # 0 THEN c3 ELSE c4
MayPrecede(g, h) ==
    KeyCmp(StrCmp(g.identifier, h.identifier), StrCmp(g.metric, h.metric),
           StrCmp(g.dataset, h.dataset), StrCmp(g.version, h.version)) <= 0

Perms(n) == {p \in [1..n -> 1..n] : \A i, j \in 1..n : p[i] = p[j] => i = j}

\* the orders in which the store may return the rows: rows equal in every
\* sort key come in any order
SortedOrders(groups) ==
    {p \in Perms(Len(groups)) :
        \A k \in 1..(Len(groups) - 1) : MayPrecede(groups[p[k]], groups[p[k + 1]])}

\* ROW_NUMBER() of the row at position k of the order
RowNum(groups, ord, k) ==
    1 + Cardinality({j \in 1..(k - 1) : SamePartition(groups[ord[j]], groups[ord[k]])})

RECURSIVE Pow10(_)
Pow10(n) == IF n <= 0 THEN 1 ELSE 10 * Pow10(n - 1)

RECURSIVE GCD(_, _)
GCD(a, b) == IF b = 0 THEN a ELSE GCD(b, a % b)

Abs(n) == IF n < 0 THEN 0 - n ELSE n

RECURSIVE SumSeq(_)
SumSeq(xs) == IF xs = <<>> THEN 0 ELSE Head(xs) + SumSeq(Tail(xs))

AvgNull == [k |-> "null", num |-> 0, den |-> 1]
Fraction(n, d, g) == [k |-> "real", num |-> n \div g, den |-> d \div g]

\* the number AVG takes a stored value for: a text that is no number counts 0
NumberOf(v) ==
    IF v.k = "real" THEN v.f
    ELSE IF ParseFloat(v.s).ok THEN ParseFloat(v.s)
    ELSE [ParseError EXCEPT !.ok = TRUE]

\* the numbers rs as integers in units of 10^emin
Scaled(rs, emin) ==
    [i \in 1..Len(rs) |->
        (IF rs[i].neg THEN 0 - 1 ELSE 1) * rs[i].m * Pow10(rs[i].e - emin)]

MinExp(rs) ==
    CHOOSE e \in {rs[i].e : i \in 1..Len(rs)} \cup {0} :
        \A i \in 1..Len(rs) : e <= rs[i].e /\ e <= 0

AvgOfSum(sum, den) == Fraction(sum, den, GCD(Abs(sum), den))
AvgScaled(rs, emin) == AvgOfSum(SumSeq(Scaled(rs, emin)), Len(rs) * Pow10(0 - emin))
AvgReals(rs) == IF rs = <<>> THEN AvgNull ELSE AvgScaled(rs, MinExp(rs))

\* AVG over values: the mean of those that are not NULL, NULL if there is none
Avg(values) ==
    AvgReals(MapSeq(SelectSeq(values, LAMBDA v : v.k # "null"), NumberOf))

\* the first row of every partition, in the order of the table
FirstRows(groups) ==
    SelectSeq([n \in 1..Len(groups) |-> n],
              LAMBDA n : \A j \in 1..(n - 1) : ~SamePartition(groups[j], groups[n]))

\* the values of numeric column j in the partition of g
ColumnOfPartition(members, j) == [i \in 1..Len(members) |-> members[i].nums[j]]
PartitionOf(groups, g) == SelectSeq(groups, LAMBDA h : SamePartition(h, g))

\* the rows of the CTE avg_values: GROUP BY dataset_identifier, metric
AvgValues(groups, firsts, ncols) ==
    [q \in 1..Len(firsts) |->
        [identifier |-> groups[firsts[q]].identifier,
         metric |-> groups[firsts[q]].metric,
         avgs |-> [j \in 1..ncols |->
                      Avg(ColumnOfPartition(PartitionOf(groups, groups[firsts[q]]), j))]]]

\* ON d.dataset_identifier = a.dataset_identifier AND d.metric = a.metric
JoinOn(d, a) == d.identifier = a.identifier /\ d.metric = a.metric

\* the SELECT list on a joined row
DisplayRow(d, row_num, avgs) ==
    [label |-> IF row_num = 1 THEN d.identifier ELSE <<>>,
     version |-> d.version,
     metric |-> d.metric,
     parameter |-> d.parameter,
     mode |-> d.mode,
     nums |-> [j \in 1..Len(d.nums) |-> IF row_num = 1 THEN avgs[j] ELSE AvgNull]]

\* LEFT JOIN: a row per matching row of avg_values, one row if none matches
Joined(d, row_num, matches) ==
    IF matches = <<>>
    THEN <<DisplayRow(d, row_num, [j \in 1..Len(d.nums) |-> AvgNull])>>
    ELSE [i \in 1..Len(matches) |-> DisplayRow(d, row_num, matches[i].avgs)]

\* the result rows from position k of the order on
RECURSIVE JoinFrom(_, _, _, _)
JoinFrom(groups, ord, avg_values, k) ==
    IF k > Len(ord) THEN <<>>
    ELSE Joined(groups[ord[k]], RowNum(groups, ord, k),
                SelectSeq(avg_values, LAMBDA a : JoinOn(groups[ord[k]], a)))
         \o JoinFrom(groups, ord, avg_values, k + 1)

Query(groups, ncols, ord) ==
    JoinFrom(groups, ord, AvgValues(groups, FirstRows(groups), ncols), 1)

QueryOn(dbF, numeric, ord) == Query(GroupRows(dbF, numeric), Len(numeric), ord)

\* the orders the store may return the rows of the query in
OrdersOf(dbF) ==
    IF dbF.hasTable /\ NumericColumns(dbF.columns) # <<>>
    THEN SortedOrders(GroupRows(dbF, NumericColumns(dbF.columns)))
    ELSE {<<>>}

\* [] without the table or without a numeric column, else the query's rows
get_grouped_statistics(dbF, ord) ==
    IF ~dbF.hasTable THEN <<>>
    ELSE IF NumericColumns(dbF.columns) = <<>> THEN <<>>
    ELSE QueryOn(dbF, NumericColumns(dbF.columns), ord)

(***************************************************************************)
(* render_grouped_table.  A row of data is a dict: its keys in order and   *)
(* their values.  The result is the header and, per row, the text of       *)
(* every cell.                                                             *)
(***************************************************************************)
RECURSIVE NatToSeq(_)
NatToSeq(n) ==
    IF n < 10 THEN <<DigitSeq[n + 1]>>
    ELSE Append(NatToSeq(n \div 10), DigitSeq[(n % 10) + 1])

\* the last w digits of n
ZeroPad(n, w) == [i \in 1..w |-> DigitSeq[((n \div Pow10(w - i)) % 10) + 1]]

SignOf(neg) == IF neg THEN <<"-">> ELSE <<>>

\* str of a float, in the range where Python writes no exponent
FloatRepr(f) ==
    IF f.inf THEN SignOf(f.neg) \o <<"i", "n", "f">>
    ELSE IF f.e >= 0
    THEN SignOf(f.neg) \o NatToSeq(f.m * Pow10(f.e)) \o <<".", "0">>
    ELSE SignOf(f.neg) \o NatToSeq(f.m \div Pow10(0 - f.e)) \o <<".">>
         \o ZeroPad(f.m % Pow10(0 - f.e), 0 - f.e)

\* q + r/d to the nearest integer, a tie to the even one: a tie of a double
\* is exact, which among the decimals with three digits holds for the
\* multiples of 0.125
RoundHalfEven(q, r, d) ==
    IF 2 * r > d THEN q + 1
    ELSE IF 2 * r < d THEN q
    ELSE IF q % 2 = 0 THEN q ELSE q + 1

\* |f| in hundredths, rounded
Hundredths(f) ==
    IF f.e >= 0 - 2 THEN f.m * Pow10(f.e + 2)
    ELSE RoundHalfEven(f.m \div Pow10(0 - 2 - f.e), f.m % Pow10(0 - 2 - f.e),
                       Pow10(0 - 2 - f.e))

FormatHundredths(neg, q) ==
    SignOf(neg) \o NatToSeq(q \div 100) \o <<".">> \o ZeroPad(q % 100, 2)

\* f"{f:.2f}"
Format2f(f) ==
    IF f.inf THEN SignOf(f.neg) \o <<"i", "n", "f">>
    ELSE FormatHundredths(f.neg, Hundredths(f))

\* float(value): ok is FALSE where it raises ValueError
FloatOf(value) == IF value.k = "real" THEN value.f ELSE ParseFloat(value.s)

\* str(value) of a value that is not None
Str(value) == IF value.k = "real" THEN FloatRepr(value.f) ELSE value.s

\* the try block: two decimals, str(value) where float raises
FormatNumeric(value) ==
    IF FloatOf(value).ok THEN Format2f(FloatOf(value)) ELSE Str(value)

StrOrEmpty(value) == IF value.k # "null" THEN Str(value) ELSE <<>>

\* the keys that are never formatted
IdentifierKeys == {FixedNames[i] : i \in 1..FixedCount}

\* the text of cell i of a row, i counted from 1
RenderCell(i, key, value) ==
    IF i = 1 THEN StrOrEmpty(value)
    ELSE IF key \notin IdentifierKeys /\ value.k # "null" THEN FormatNumeric(value)
    ELSE StrOrEmpty(value)

RenderRow(row) == [i \in 1..Len(row.keys) |-> RenderCell(i, row.keys[i], row.vals[i])]

render_grouped_table(data) ==
    IF data = <<>>
    THEN [done |-> TRUE, empty |-> TRUE, header |-> <<>>, body |-> <<>>]
    ELSE [done |-> TRUE, empty |-> FALSE, header |-> data[1].keys,
          body |-> [n \in 1..Len(data) |-> RenderRow(data[n])]]

(***************************************************************************)
(* Specification of the normalizer: a header is drawn, then normalised,    *)
(* then its result is normalised again.                                    *)
(***************************************************************************)
HdrAlphabet == {"a", "A", "1", "_", "-", "U4E2D"}

RECURSIVE SeqsUpTo(_, _)
SeqsUpTo(S, n) ==
    IF n = 0 THEN {<<>>}
    ELSE LET prev == SeqsUpTo(S, n - 1)
         IN  prev \cup {Append(s, x) : s \in {p \in prev : Len(p) = n - 1}, x \in S}

Headers == SeqsUpTo(HdrAlphabet, MaxHdrLen)

InferIdle == iSamples = <<>> /\ iType = "none"
NormIdle == nHdr = <<>> /\ nFlag = FALSE /\ nOut = <<>>
NoCall == [op |-> "none", force |-> FALSE, calls |-> 0, before |-> 0, ret |-> 0,
           imported |-> FALSE, raised |-> FALSE]
FilesIdle == csv = NoFile /\ db = NoStore /\ marker = NoMarker /\ last = NoCall
NotAggregated == [done |-> FALSE, rows |-> <<>>]
AggIdle == aDb = NoStore /\ aOut = NotAggregated
NotRendered == [done |-> FALSE, empty |-> FALSE, header |-> <<>>, body |-> <<>>]
RenderIdle == rData = <<>> /\ rOut = NotRendered
RaceIdle == cMode = "none" /\ cPath = 0 /\ cInodes = <<>> /\ cProc = <<>>

NormInit ==
    /\ nHdr \in Headers
    /\ nFlag \in BOOLEAN
    /\ nOut = <<>>
    /\ InferIdle
    /\ FilesIdle
    /\ AggIdle
    /\ RenderIdle
    /\ RaceIdle

\* clean_column_name(H, flag)
Normalize ==
    /\ nOut = <<>>
    /\ nOut' = <<clean_column_name(nHdr, nFlag)>>
    /\ UNCHANGED <<nHdr, nFlag, iSamples, iType, csv, db, marker, last, aDb, aOut, rData, rOut, cMode, cPath, cInodes, cProc>>

\* clean_column_name(clean_column_name(H, flag), flag)
NormalizeAgain ==
    /\ Len(nOut) = 1
    /\ nOut' = Append(nOut, clean_column_name(nOut[1], nFlag))
    /\ UNCHANGED <<nHdr, nFlag, iSamples, iType, csv, db, marker, last, aDb, aOut, rData, rOut, cMode, cPath, cInodes, cProc>>

NormNext == Normalize \/ NormalizeAgain

SpecNorm == NormInit /\ [][NormNext]_vars

\* C7: the normalizer is idempotent: for every header and both values of the
\* preserve flag, normalising the normalised header gives the same identifier.
C7_Idempotent == Len(nOut) = 2 => nOut[2] = nOut[1]

(***************************************************************************)
(* Specification of the type inferencer: a sample list is drawn, then      *)
(* infer_data_type is applied to it.                                       *)
(***************************************************************************)
SampleLiterals ==
    { <<>>, <<" ">>, <<"7">>, <<"1", ".", "5">>, <<"1", "e", "5">>,
      <<"1", "e", "4", "0", "0">>, <<"x">>,
      <<"2", "0", "2", "4", "-", "0", "1", "-", "0", "1">> }

SampleLists == SeqsUpTo(SampleLiterals, MaxSamples)

InferInit ==
    /\ iSamples \in SampleLists
    /\ iType = "none"
    /\ NormIdle
    /\ FilesIdle
    /\ AggIdle
    /\ RenderIdle
    /\ RaceIdle

Infer ==
    /\ iType = "none"
    /\ iType' = infer_data_type(iSamples)
    /\ UNCHANGED <<nHdr, nFlag, nOut, iSamples, csv, db, marker, last, aDb, aOut, rData, rOut, cMode, cPath, cInodes, cProc>>

InferNext == Infer

SpecInfer == InferInit /\ [][InferNext]_vars

AllBlank(samples) == \A k \in 1..Len(samples) : IsBlank(samples[k])
NonBlankCount(samples) == Cardinality({k \in 1..Len(samples) : ~IsBlank(samples[k])})
\* the samples that parse as numbers
NumericIdx(samples) ==
    {k \in 1..Len(samples) : ~IsBlank(samples[k]) /\ ParseFloat(samples[k]).ok}
ExponentIdx(samples) == {k \in NumericIdx(samples) : HasExponentChar(samples[k])}
DecimalIdx(samples) == {k \in NumericIdx(samples) : Contains(samples[k], ".")}

\* C8: for every sample list of one or more values that are all blank, the
\* inferencer returns TEXT.
C8_AllBlankIsText ==
    (iType # "none" /\ Len(iSamples) >= 1 /\ AllBlank(iSamples)) => iType = "TEXT"

\* C9: when no exponential sample is out of the safe range and the numeric
\* samples exceed 80% of the non-blank samples, the result is TEXT if a
\* sample uses exponential notation, else DECIMAL if a sample has a decimal
\* point, else INTEGER.
C9_NumericMajority ==
    ( /\ iType # "none"
      /\ \A k \in ExponentIdx(iSamples) : ~OutOfSafeRange(ParseFloat(iSamples[k]))
      /\ 10 * Cardinality(NumericIdx(iSamples)) > 8 * NonBlankCount(iSamples) )
    => iType = ( IF ExponentIdx(iSamples) # {} THEN "TEXT"
                 ELSE IF DecimalIdx(iSamples) # {} THEN "DECIMAL(10, 4)"
                 ELSE "INTEGER" )

(***************************************************************************)
(* Specification of the serving process: the source file is edited or      *)
(* removed from outside, and the routes and entry points call              *)
(* process_csv_to_database.                                                *)
(***************************************************************************)
\* header lines: five identifier columns, then no suffix column, one, or two
\* whose names normalise to the same identifier
HdrFixed == << <<"d">>, <<"v">>, <<"m">>, <<"p">>, <<"o">> >>
HdrNone == HdrFixed
HdrOne == HdrFixed \o << <<"s">> >>
HdrDup == HdrFixed \o << <<"s", "-", "1">>, <<"s", "_", "1">> >>

\* the identifier fields of a data line, dataset first
IdFields(dataset) == <<dataset, <<"1">>, <<"m">>, <<"p">>, <<"t">> >>
DsA1 == <<"a", "_", "1">>
DsA2 == <<"a", "-", "2">>

LinesFor(hdr) ==
    IF hdr = HdrNone THEN {IdFields(DsA1), IdFields(<<>>)}
    ELSE IF hdr = HdrOne
    THEN {IdFields(DsA1) \o << <<"8", "0">> >>, IdFields(DsA2) \o << <<"x">> >>,
          IdFields(<<>>) \o << <<"8", "0">> >>}
    ELSE {IdFields(DsA1) \o << <<"8", "0">>, <<"9">> >>}

CsvFiles ==
    {CsvFile(<<>>)} \cup
    {CsvFile(<<hdr>> \o lines) :
        hdr \in {HdrNone}, lines \in SeqsUpTo(LinesFor(HdrNone), MaxRows)} \cup
    {CsvFile(<<hdr>> \o lines) :
        hdr \in {HdrOne}, lines \in SeqsUpTo(LinesFor(HdrOne), MaxRows)} \cup
    {CsvFile(<<hdr>> \o lines) :
        hdr \in {HdrDup}, lines \in SeqsUpTo(LinesFor(HdrDup), MaxRows)}

Init ==
    /\ csv = NoFile
    /\ db = NoStore
    /\ marker = NoMarker
    /\ last = NoCall
    /\ NormIdle
    /\ InferIdle
    /\ AggIdle
    /\ RenderIdle
    /\ RaceIdle

Others == <<nHdr, nFlag, nOut, iSamples, iType, aDb, aOut, rData, rOut, cMode, cPath, cInodes, cProc>>

\* the record of an operation that has called process_csv_to_database: the
\* force flag and the result of its last call, the number of its calls, and
\* the number of records the store held before it
Called(op, force, calls, r) ==
    [op |-> op, force |-> force, calls |-> calls, before |-> Len(db.rows),
     ret |-> r.ret, imported |-> r.imported, raised |-> r.raised]

\* the source file is written from outside
WriteCsv ==
    /\ \E f \in CsvFiles : f # csv /\ csv' = f
    /\ last' = [NoCall EXCEPT !.op = "write"]
    /\ UNCHANGED <<db, marker, Others>>

\* the source file is removed from outside
RemoveCsv ==
    /\ csv.exists
    /\ csv' = NoFile
    /\ last' = [NoCall EXCEPT !.op = "remove"]
    /\ UNCHANGED <<db, marker, Others>>

\* a call of process_csv_to_database
Process ==
    \E force \in BOOLEAN :
        \E r \in {process_csv_to_database(csv, db, marker, force)} :
            /\ db' = r.db
            /\ marker' = r.marker
            /\ last' = Called("process", force, 1, r)
            /\ UNCHANGED <<csv, Others>>

\* the route /: one call, and a forced second call if the first returned 0
Index ==
    IF ~csv.exists
    THEN /\ last' = [NoCall EXCEPT !.op = "index"]
         /\ UNCHANGED <<csv, db, marker, Others>>
    ELSE \E r1 \in {process_csv_to_database(csv, db, marker, FALSE)} :
            \E r \in {IF r1.ret = 0
                      THEN process_csv_to_database(csv, r1.db, r1.marker, TRUE)
                      ELSE r1} :
                /\ db' = r.db
                /\ marker' = r.marker
                /\ last' = Called("index", r1.ret = 0, IF r1.ret = 0 THEN 2 ELSE 1, r)
                /\ UNCHANGED <<csv, Others>>

\* the route /refresh: a forced call
Refresh ==
    IF ~csv.exists
    THEN /\ last' = [NoCall EXCEPT !.op = "refresh"]
         /\ UNCHANGED <<csv, db, marker, Others>>
    ELSE \E r \in {process_csv_to_database(csv, db, marker, TRUE)} :
            /\ db' = r.db
            /\ marker' = r.marker
            /\ last' = Called("refresh", TRUE, 1, r)
            /\ UNCHANGED <<csv, Others>>

\* main(): a call, then the marker is deleted
Main ==
    \E r \in {process_csv_to_database(csv, db, marker, FALSE)} :
        /\ db' = r.db
        /\ marker' = NoMarker
        /\ last' = Called("main", FALSE, 1, r)
        /\ UNCHANGED <<csv, Others>>

\* the server stops: the marker is deleted
Shutdown ==
    /\ marker.exists
    /\ marker' = NoMarker
    /\ last' = [NoCall EXCEPT !.op = "shutdown"]
    /\ UNCHANGED <<csv, db, Others>>

Next == WriteCsv \/ RemoveCsv \/ Process \/ Index \/ Refresh \/ Main \/ Shutdown

Spec == Init /\ [][Next]_vars

(***************************************************************************)
(* Properties of process_csv_to_database                                   *)
(***************************************************************************)
DataLines(csvF) == Tail(csvF.lines)

\* a step that is a direct call of process_csv_to_database
CallStep == last'.op = "process"

\* C1: a call with force_update false, while the marker holds the hash of the
\* current source file and the store file exists, returns -1 and leaves the
\* store (its records and their count) and the marker unchanged.
C1_NoUpdate ==
    [][ ( /\ CallStep /\ ~last'.force
          /\ csv.exists /\ db.exists
          /\ marker.exists /\ marker.text = get_file_hash(csv) )
        => (last'.ret = -1 /\ ~last'.imported /\ db' = db /\ marker' = marker) ]_vars

C1_Witness ==
    /\ last.op = "process" /\ ~last.force /\ last.ret = -1
    /\ csv.exists /\ marker.exists /\ marker.text = get_file_hash(csv)
    /\ db.hasTable /\ Len(db.rows) = 2

\* what the table holds for field i of a line: an identifier field verbatim,
\* a blank suffix field as NULL, any other suffix field as its number or as
\* its literal text
StoredAs(i, field, v) ==
    IF i <= FixedCount THEN v = TextVal(field)
    ELSE IF IsBlank(field) THEN v = Null
    ELSE v = TextVal(field) \/ (v.k = "real" /\ v.f = ParseFloat(field))

\* the table has the columns of the header and one record per data line
HoldsDataLines(csvF, dbF) ==
    /\ dbF.hasTable
    /\ Len(dbF.columns) = Len(Head(csvF.lines))
    /\ Len(dbF.rows) = Len(DataLines(csvF))
    /\ \A n \in 1..Len(dbF.rows) :
          /\ Len(dbF.rows[n].vals) = Len(Head(csvF.lines))
          /\ \A i \in 1..Len(Head(csvF.lines)) :
                StoredAs(i, DataLines(csvF)[n][i], dbF.rows[n].vals[i])

\* C2: after any sequence of earlier imports, an import that completes (a
\* forced one, or one whose hash differs from the marker) leaves in the table
\* exactly the data lines of the current source file, and returns their number.
C2_Replaced ==
    last.imported =>
        /\ csv.exists /\ csv.lines # <<>>
        /\ HoldsDataLines(csv, db)
        /\ last.ret = Len(DataLines(csv))

C2_Witness ==
    /\ last.op = "process" /\ last.force /\ last.imported
    /\ last.before = 2 /\ Len(db.rows) = 1 /\ last.ret = 1
    /\ Len(db.columns) = FixedCount

\* C3: without the source file a call returns 0, raises nothing and leaves
\* the store file and the marker unchanged, whatever force_update is.
C3_MissingInput ==
    [][ (CallStep /\ ~csv.exists)
        => ( /\ last'.ret = 0 /\ ~last'.raised /\ ~last'.imported
             /\ db' = db /\ marker' = marker ) ]_vars

C3_Witness ==
    /\ last.op = "process" /\ last.force /\ last.ret = 0 /\ ~csv.exists
    /\ db.hasTable /\ Len(db.rows) > 0 /\ marker.exists

\* the attempt that a call makes on the source file fails at one of its steps
FailsAtImport(csvF, cr) == ~cr.ok \/ ~import_csv_to_db(csvF, cr.db).ok
FailsAtCreate(csvF, sql) ==
    ~sql.ok \/ FailsAtImport(csvF, create_database(sql.columns, NoStore))
AttemptFails(csvF) == FailsAtCreate(csvF, generate_sql_table(csvF))

\* C4: when a step of an import attempt fails (schema generation, table
\* creation or row insertion), the call returns 0, no exception leaves it,
\* the marker keeps its value, and the table, if there is one, is empty.
C4_MarkerOnlyOnSuccess ==
    [][ ( /\ CallStep /\ csv.exists /\ AttemptFails(csv)
          /\ NeedsUpdate(last'.force, get_file_hash(csv), PreviousHash(marker), db) )
        => ( /\ last'.ret = 0 /\ ~last'.raised
             /\ marker' = marker
             /\ db'.rows = <<>> ) ]_vars

C4_Witness ==
    /\ last.op = "process" /\ last.ret = 0 /\ ~last.imported
    /\ csv.exists /\ AttemptFails(csv)
    /\ marker.exists /\ marker.text # get_file_hash(csv)
    /\ db.hasTable /\ db.rows = <<>> /\ last.before > 0

\* the loader is reached: the table of the source file has been created
LoaderReached(csvF) ==
    /\ csvF.exists
    /\ generate_sql_table(csvF).ok
    /\ ~DuplicateNames(generate_sql_table(csvF).columns)

\* C10: the loader inserts one record per data line, whatever the fields
\* hold, and returns the number of data lines; identifier fields are stored
\* verbatim and an unparsable suffix field as its literal text.
C10_OneRecordPerLine ==
    (last.calls > 0 /\ last.ret # -1 /\ LoaderReached(csv))
    => ( /\ last.ret = Len(DataLines(csv))
         /\ HoldsDataLines(csv, db)
         /\ \A n \in 1..Len(db.rows) : \A i \in 1..Len(Head(csv.lines)) :
               (i > FixedCount /\ ~IsBlank(DataLines(csv)[n][i])
                   /\ ~ParseFloat(DataLines(csv)[n][i]).ok)
               => db.rows[n].vals[i] = TextVal(DataLines(csv)[n][i]) )

(***************************************************************************)
(* Specification of the aggregator: a source file is drawn and imported    *)
(* into a new store, then get_grouped_statistics reads the store.          *)
(***************************************************************************)
AggLine(dataset, version, metric, value) ==
    <<dataset, version, metric, <<"p">>, <<"t">>, value>>

DsA23 == <<"a", "-", "2", "_", "3">>
DsA12 == <<"a", "_", "1", "-", "2">>
DsB == <<"b">>

\* data lines: datasets with one delimiter, with both in either order and with
\* none, two metrics, and a value that is a number, blank or a word
AggLines ==
    {AggLine(DsA1, <<"1">>, <<"m">>, <<"8", "0">>),
     AggLine(DsA2, <<"1">>, <<"m">>, <<"9", "0">>),
     AggLine(DsA1, <<"2">>, <<"m">>, <<"9", "0">>),
     AggLine(DsA23, <<"1">>, <<"m">>, <<"8", "0">>),
     AggLine(DsA12, <<"1">>, <<"n">>, <<"9", "0">>),
     AggLine(DsB, <<"1">>, <<"m">>, <<"8", "0">>),
     AggLine(DsB, <<"1">>, <<"m">>, <<>>),
     AggLine(DsB, <<"2">>, <<"m">>, <<"x">>)}

AggFiles ==
    {CsvFile(<<HdrOne>> \o lines) : lines \in SeqsUpTo(AggLines, MaxAggRows)}
    \cup {CsvFile(<<HdrNone>> \o lines) :
            lines \in SeqsUpTo({IdFields(DsA1), IdFields(DsA2)}, MaxAggRows)}
    \cup {CsvFile(<<HdrDup>>)}

AggStores == {process_csv_to_database(f, NoStore, NoMarker, TRUE).db : f \in AggFiles}

AggInit ==
    /\ aDb \in AggStores
    /\ aOut = NotAggregated
    /\ NormIdle
    /\ InferIdle
    /\ FilesIdle
    /\ RenderIdle
    /\ RaceIdle

Aggregate ==
    /\ ~aOut.done
    /\ \E ord \in OrdersOf(aDb) :
          aOut' = [done |-> TRUE, rows |-> get_grouped_statistics(aDb, ord)]
    /\ UNCHANGED <<aDb, nHdr, nFlag, nOut, iSamples, iType, csv, db, marker, last, rData, rOut,
                   cMode, cPath, cInodes, cProc>>

AggNext == Aggregate

SpecAgg == AggInit /\ [][AggNext]_vars

\* the family key of a dataset field: the part before the earlier of its
\* first '_' and first '-', the whole field if it has neither
FamilyKey(dataset) == Before(dataset, IndexOf(dataset, {"_", "-"}))

\* the fields of table row n
Field(n, c) == aDb.rows[n].vals[c].s

\* table rows n and k are in one partition: same family key, same metric
Together(n, k) ==
    /\ FamilyKey(Field(n, 1)) = FamilyKey(Field(k, 1))
    /\ Field(n, 3) = Field(k, 3)

\* table row n does not come after row k in (dataset, version, metric) order
NotAfter(n, k) ==
    KeyCmp(StrCmp(Field(n, 1), Field(k, 1)), StrCmp(Field(n, 2), Field(k, 2)),
           StrCmp(Field(n, 3), Field(k, 3)), 0) <= 0

MetricColumns == {c \in 1..Len(aDb.columns) : c > FixedCount}

\* the numbers of the values of column c that are not NULL in the partition
\* of table row n, and their mean as a reduced fraction
PartitionNumbers(n, c) ==
    MapSeq(SelectSeq(aDb.rows, LAMBDA r : /\ FamilyKey(r.vals[1].s) = FamilyKey(Field(n, 1))
                                          /\ r.vals[3].s = Field(n, 3)
                                          /\ r.vals[c].k # "null"),
           LAMBDA r : NumberOf(r.vals[c]))
PartitionAverage(n, c) == AvgReals(PartitionNumbers(n, c))

\* display row d passes the identifier fields of table row n through
PassedThrough(d, n) ==
    /\ d.version = Field(n, 2)
    /\ d.metric = Field(n, 3)
    /\ d.parameter = Field(n, 4)
    /\ d.mode = Field(n, 5)

\* display row d is the summary row of the partition of table row n
SummaryRow(d, n) ==
    /\ d.label = FamilyKey(Field(n, 1))
    /\ Len(d.nums) = Cardinality(MetricColumns)
    /\ \A j \in 1..Len(d.nums) : d.nums[j] = PartitionAverage(n, FixedCount + j)

\* display row d is a continuation row
ContinuationRow(d) ==
    /\ d.label = <<>>
    /\ \A j \in 1..Len(d.nums) : d.nums[j] = AvgNull

\* p pairs the display rows with the table rows: the row paired with the
\* first table row of the partition is chosen as the summary row
FirstPaired(p, i) ==
    \A k \in 1..Len(p) : Together(p[i], p[k]) => i <= k

Pairing(p) ==
    \A i \in 1..Len(p) :
        /\ PassedThrough(aOut.rows[i], p[i])
        /\ IF FirstPaired(p, i)
           THEN /\ SummaryRow(aOut.rows[i], p[i])
                /\ \A k \in 1..Len(p) : Together(p[i], p[k]) => NotAfter(p[i], p[k])
           ELSE ContinuationRow(aOut.rows[i])

Populated == aDb.hasTable /\ aDb.rows # <<>>

\* C5: for every populated table, the aggregator returns as many display rows
\* as the table has rows, also when the table has no metric column.
C5_RowCount == aOut.done /\ Populated => Len(aOut.rows) = Len(aDb.rows)

Real(neg, m, e) == RealVal([ok |-> TRUE, inf |-> FALSE, neg |-> neg, m |-> m, e |-> e])

\* the values of a metric cell: NULL, floats with one, two and three
\* decimals, and texts that are and are not numbers
RenderValues ==
    {Null, Real(FALSE, 85, 0), Real(FALSE, 15, 0 - 1), Real(TRUE, 15, 0 - 1),
     Real(FALSE, 25, 0 - 2), Real(FALSE, 85125, 0 - 3), Real(FALSE, 85126, 0 - 3),
     Real(FALSE, 333, 0 - 3), TextVal(<<"x">>), TextVal(<<"7">>),
     TextVal(<<"1", ".", "2", "3", "4">>)}

RenderLabels == {TextVal(<<"a">>), TextVal(<<>>), Null}

RenderKeys == FixedNames \o << <<"s">> >>

RenderRows ==
    {[keys |-> RenderKeys,
      vals |-> <<label, TextVal(<<"1">>), TextVal(<<"m">>), TextVal(<<"p">>),
                 TextVal(<<"t">>), v>>] :
        label \in RenderLabels, v \in RenderValues}

RenderInit ==
    /\ rData \in SeqsUpTo(RenderRows, MaxRenderRows)
    /\ rOut = NotRendered
    /\ NormIdle
    /\ InferIdle
    /\ FilesIdle
    /\ AggIdle
    /\ RaceIdle

Render ==
    /\ ~rOut.done
    /\ rOut' = render_grouped_table(rData)
    /\ UNCHANGED <<rData, nHdr, nFlag, nOut, iSamples, iType, csv, db, marker, last,
                   aDb, aOut, cMode, cPath, cInodes, cProc>>

RenderNext == Render

SpecRender == RenderInit /\ [][RenderNext]_vars

\* the literal form of a present value and the number of its decimals
Literal(value) == Str(value)
Decimals(lit) == IF IndexOf(lit, {"."}) = 0 THEN 0 ELSE Len(lit) - IndexOf(lit, {"."})

\* the literal form brought to two decimals
PadTwo(lit) ==
    IF IndexOf(lit, {"."}) = 0 THEN lit \o <<".", "0", "0">>
    ELSE lit \o [i \in 1..(2 - Decimals(lit)) |-> "0"]

\* what the rule gives for the metric value v
MetricText(v) ==
    IF v.k = "null" THEN <<>>
    ELSE IF ~FloatOf(v).ok THEN Literal(v)
    ELSE IF Decimals(Literal(v)) < 2 THEN PadTwo(Literal(v))
    ELSE Literal(v)

IdentifierText(v) == IF v.k = "null" THEN <<>> ELSE Literal(v)

\* C11: in the rendering of the aggregated rows, a present value of a metric
\* column has exactly two decimals if its literal form has fewer and is left
\* as it is if it has two or more; identifier columns are literal text, NULL
\* is the empty string, and a present value that is no number is its literal
\* string.
C11_Rendering ==
    rOut.done =>
        \A n \in 1..Len(rOut.body) : \A i \in 1..Len(rOut.body[n]) :
            rOut.body[n][i] = IF i <= FixedCount THEN IdentifierText(rData[n].vals[i])
                              ELSE MetricText(rData[n].vals[i])

\* C13: whenever process_csv_to_database returns -1 ("no update"), after any
\* sequence of source edits and import attempts, the table holds exactly the
\* data lines of the current source file.
C13_NoUpdateMeansCurrent ==
    (last.op \in {"process", "index", "main"} /\ last.ret = -1) =>
        /\ csv.exists /\ csv.lines # <<>>
        /\ HoldsDataLines(csv, db)

\* C14: a call that completes the load and writes the marker returns a
\* positive count, so that 0 is returned by failed imports only.
C14_ZeroMeansFailed == last.imported => last.ret > 0

(***************************************************************************)
(* Specification of two invocations of process_csv_to_database on one      *)
(* source file and one store path.  An invocation takes the steps: read    *)
(* the marker, remove the store file, create the table, clear the rows,    *)
(* insert the rows, commit, count, write the marker.  A store file lives   *)
(* on after os.remove for the connection that has it open; db_path then    *)
(* names no file until the next sqlite3.connect creates one.               *)
(***************************************************************************)
Invocations == {1, 2}
Other(p) == 3 - p

\* the store file db_path names
PathStore == IF cPath = 0 THEN NoStore ELSE cInodes[cPath]

\* sqlite3.connect(db_path) and a write of store: a new file if there is none
InodesWith(store) ==
    IF cPath = 0 THEN Append(cInodes, store) ELSE [cInodes EXCEPT ![cPath] = store]
PathWith == IF cPath = 0 THEN Len(cInodes) + 1 ELSE cPath

NotStarted(force) ==
    [pc |-> "read", force |-> force, hash |-> <<>>, conn |-> 0, pending |-> NoStore,
     count |-> 0, ret |-> 0, stored |-> FALSE]

\* the invocation returns ret, the store file of the path being store
Return(p, ret, store) ==
    [cProc EXCEPT ![p].pc = "done", ![p].ret = ret,
                  ![p].stored = (csv.lines # <<>> /\ HoldsDataLines(csv, store))]

\* what the invocations leave alone
RaceFrame == <<csv, cMode, db, last, nHdr, nFlag, nOut, iSamples, iType, aDb, aOut,
               rData, rOut>>

\* the invocations are not kept apart
MayStep_Unserialized(p) == TRUE

\* serialized, the second invocation starts when the first has returned
MayStep(p) == cMode = "interleaved" \/ p = 1 \/ cProc[1].pc = "done"

\* lines 385-396: the hashes, and -1 if nothing has changed
ReadMarker(p) ==
    /\ MayStep(p)
    /\ cProc[p].pc = "read"
    /\ IF NeedsUpdate(cProc[p].force, get_file_hash(csv), PreviousHash(marker), PathStore)
       THEN cProc' = [cProc EXCEPT ![p].pc = "remove", ![p].hash = get_file_hash(csv)]
       ELSE cProc' = Return(p, 0 - 1, PathStore)
    /\ UNCHANGED <<cPath, cInodes, marker>>
    /\ UNCHANGED RaceFrame

\* lines 401-403
RemoveFile(p) ==
    /\ MayStep(p)
    /\ cProc[p].pc = "remove"
    /\ cPath' = IF RemoveStore(PathStore).exists THEN cPath ELSE 0
    /\ cProc' = [cProc EXCEPT ![p].pc = "create"]
    /\ UNCHANGED <<cInodes, marker>>
    /\ UNCHANGED RaceFrame

\* create_database on the file of the path
Created(p, cr) ==
    /\ cInodes' = InodesWith(cr.db)
    /\ cPath' = PathWith
    /\ cProc' = IF cr.ok THEN [cProc EXCEPT ![p].pc = "clear"] ELSE Return(p, 0, cr.db)

\* lines 406-409
CreateTable(p) ==
    /\ MayStep(p)
    /\ cProc[p].pc = "create"
    /\ IF generate_sql_table(csv).ok
       THEN Created(p, create_database(generate_sql_table(csv).columns, PathStore))
       ELSE cProc' = Return(p, 0, PathStore) /\ UNCHANGED <<cPath, cInodes>>
    /\ UNCHANGED marker
    /\ UNCHANGED RaceFrame

\* the other invocation has a transaction open on the file of the path
Locked(p) ==
    /\ cProc[Other(p)].pc \in {"insert", "commit"}
    /\ cProc[Other(p)].conn = cPath

\* lines 247-251: the connection, which creates the file if there is none,
\* and DELETE, which raises without the table and, after the timeout, while
\* the other connection holds the write lock
ClearRows(p) ==
    /\ MayStep(p)
    /\ cProc[p].pc = "clear"
    /\ IF ~PathStore.hasTable
       THEN /\ cInodes' = InodesWith(IF cPath = 0 THEN EmptyStore ELSE PathStore)
            /\ cPath' = PathWith
            /\ cProc' = Return(p, 0, IF cPath = 0 THEN EmptyStore ELSE PathStore)
       ELSE /\ cProc' = IF Locked(p) THEN Return(p, 0, PathStore)
                        ELSE [cProc EXCEPT ![p].pc = "insert", ![p].conn = cPath]
            /\ UNCHANGED <<cPath, cInodes>>
    /\ UNCHANGED marker
    /\ UNCHANGED RaceFrame

\* the INSERTs have run, or one has raised
Inserted(p, imp) ==
    cProc' = IF imp.ok THEN [cProc EXCEPT ![p].pc = "commit", ![p].pending = imp.db]
             ELSE Return(p, 0, PathStore)

\* lines 254-328, in the transaction DELETE has begun
InsertRows(p) ==
    /\ MayStep(p)
    /\ cProc[p].pc = "insert"
    /\ Inserted(p, ImportInto(cInodes[cProc[p].conn], Head(csv.lines),
                              FieldNames(Head(csv.lines)), Tail(csv.lines)))
    /\ UNCHANGED <<cPath, cInodes, marker>>
    /\ UNCHANGED RaceFrame

\* line 331
Commit(p) ==
    /\ MayStep(p)
    /\ cProc[p].pc = "commit"
    /\ cInodes' = [cInodes EXCEPT ![cProc[p].conn] = cProc[p].pending]
    /\ cProc' = [cProc EXCEPT ![p].pc = "count"]
    /\ UNCHANGED <<cPath, marker>>
    /\ UNCHANGED RaceFrame

\* lines 334-337
Count(p) ==
    /\ MayStep(p)
    /\ cProc[p].pc = "count"
    /\ cProc' = [cProc EXCEPT ![p].pc = "mark",
                              ![p].count = Len(cInodes[cProc[p].conn].rows)]
    /\ UNCHANGED <<cPath, cInodes, marker>>
    /\ UNCHANGED RaceFrame

\* lines 415-423
WriteMarker(p) ==
    /\ MayStep(p)
    /\ cProc[p].pc = "mark"
    /\ marker' = MarkerFile(cProc[p].hash)
    /\ cProc' = Return(p, cProc[p].count, PathStore)
    /\ UNCHANGED <<cPath, cInodes>>
    /\ UNCHANGED RaceFrame

\* the source files: one and two data lines, and a line the loader rejects
RaceFiles ==
    {CsvFile(<<HdrOne, IdFields(DsA1) \o << <<"8", "0">> >> >>),
     CsvFile(<<HdrNone, IdFields(DsA1), IdFields(DsA2)>>),
     CsvFile(<<HdrNone, IdFields(<<>>)>>)}

\* the store and the marker before the invocations: none, or those an
\* earlier call has left
RaceStarts ==
    {Outcome(0, NoStore, NoMarker, FALSE)}
    \cup {process_csv_to_database(f, NoStore, NoMarker, TRUE) : f \in RaceFiles}

RaceInit ==
    /\ csv \in RaceFiles
    /\ cMode \in {"serial", "interleaved"}
    /\ \E start \in RaceStarts :
          /\ marker = start.marker
          /\ cInodes = IF start.db.exists THEN <<start.db>> ELSE <<>>
          /\ cPath = IF start.db.exists THEN 1 ELSE 0
    /\ cProc \in {<<NotStarted(f1), NotStarted(f2)>> : f1 \in BOOLEAN, f2 \in BOOLEAN}
    /\ db = NoStore
    /\ last = NoCall
    /\ NormIdle
    /\ InferIdle
    /\ AggIdle
    /\ RenderIdle

RaceNext ==
    \E p \in Invocations :
        \/ ReadMarker(p)
        \/ RemoveFile(p)
        \/ CreateTable(p)
        \/ ClearRows(p)
        \/ InsertRows(p)
        \/ Commit(p)
        \/ Count(p)
        \/ WriteMarker(p)

SpecRace == RaceInit /\ [][RaceNext]_vars

\* one invocation alone imports the source file and returns a positive count
Importable(csvF) == process_csv_to_database(csvF, NoStore, NoMarker, TRUE).ret > 0

\* the invocation has failed, or has reported success while the table did
\* not hold the data lines of the source file
Unsafe(p) ==
    /\ cProc[p].pc = "done"
    /\ \/ cProc[p].ret = 0
       \/ cProc[p].ret > 0 /\ ~cProc[p].stored

\* C12: serialized, no invocation on an importable source file fails or
\* reports success over a table that does not hold the source's data lines;
\* interleaved at the steps of the invocations, such a state is reachable.
C12_SerializedIsSafe ==
    (cMode = "serial" /\ Importable(csv)) => \A p \in Invocations : ~Unsafe(p)

\* interleaved on an importable source file: one invocation has failed, at
\* the table the other has removed, and the other has imported the lines
C12_Witness ==
    /\ cMode = "interleaved"
    /\ Importable(csv)
    /\ \E p \in Invocations :
          /\ cProc[p].pc = "done" /\ cProc[p].ret = 0
          /\ cProc[Other(p)].pc = "done" /\ cProc[Other(p)].ret > 0
          /\ cProc[Other(p)].stored

====
